---- MODULE Spec2Model ----
(***************************************************************************)
(* Model of src/main.rs of opencv-undistort: the `calibrate` and `correct` *)
(* subcommands of main().  The OpenCV and filesystem calls are external:   *)
(* each is a step whose result (Ok / Err, found / not found, written /     *)
(* not written) is chosen nondeterministically, and the program's          *)
(* reaction to the result (`?`, `.unwrap()`, `if ret`) is taken from the   *)
(* source.  Values computed by OpenCV are opaque tokens.                   *)
(***************************************************************************)
EXTENDS Integers, Sequences, FiniteSets, TLC

\* Largest number of entries of a scanned directory.
MaxEntries == 3

\* main.rs:73-75
width_dim == 11
height_dim == 8
objp_len == width_dim * height_dim

\* main.rs:157, the alpha argument 1.0 of get_optimal_new_camera_matrix
Alpha == 1

\* Sequences are 1-based: the point of index i in the source is element i+1.
\* The grid with the row computed as i / width_dim (raster order).
objp_raster == [k \in 1..objp_len |-> <<(k - 1) % width_dim, (k - 1) \div width_dim, 0>>]

\* main.rs:76-79: (0..objp_len).map(|i| Point3f::new(i % width_dim, i / height_dim, 0.))
objp == [k \in 1..objp_len |-> <<(k - 1) % width_dim, (k - 1) \div height_dim, 0>>]

\* Directory entries: a file name is its stem (a sequence of tokens, so that
\* the prefix "u_" can be prepended) and its extension.
Entry(stem, ext) == [stem |-> stem, ext |-> ext]
Entries == { Entry(<<"a">>, "jpg"), Entry(<<"b">>, "jpg"),
             Entry(<<"u_", "a">>, "jpg"), Entry(<<"c">>, "png") }

\* Pixel size of a decoded image file (images may differ in size).
ImageSize(e) == IF e.stem = <<"b">> THEN <<800, 600>> ELSE <<640, 480>>

\* The possible listings of a directory: distinct entries in any order.
Listings == { s \in UNION { [1..n -> Entries] : n \in 0..MaxEntries } :
                \A i, j \in DOMAIN s : i # j => s[i] # s[j] }

\* main.rs:88, 130, 206: .filter(|entry| entry.path().extension().is_some_and(|ext| ext == "jpg"))
IsJpg(e) == e.ext = "jpg"
JpgFilter(s) == SelectSeq(s, IsJpg)

\* main.rs:209: format!("u_{}", image.file_name())
NewImageName(e) == Entry(<<"u_">> \o e.stem, e.ext)

\* main.rs:216: format!("{}/{}", output_dir, new_image)
OutputPath(dir, e) == <<dir, NewImageName(e)>>

\* Corners written by find_chessboard_corners when it returns true: one per
\* interior corner of the pattern, in grid order.
DetectedCorners(e) == [k \in 1..objp_len |-> <<e.stem, k, "detected">>]

\* corner_sub_pix moves each corner in place; the count and order are kept.
RefinedCorners(cs) == [k \in 1..Len(cs) |-> <<cs[k][1], cs[k][2], "refined">>]

\* Results of calibrate_camera and get_optimal_new_camera_matrix (opaque).
Matrix(tag, rows, cols) == [r \in 1..rows |-> [c \in 1..cols |-> <<tag, r, c>>]]
SolverMtx == Matrix("M", 3, 3)
SolverDist == Matrix("D", 1, 5)
OptimalMtx == Matrix("Mopt", 3, 3)
DefaultMat == <<>>

\* main.rs:171-177, 178-184: to_vec_2d().iter().flat_map(|row| row.iter()).cloned().collect()
RECURSIVE Flatten(_)
Flatten(m) == IF m = <<>> THEN <<>> ELSE Head(m) \o Flatten(Tail(m))

\* main.rs:50-54
Calibration(cm, dc) == [camera_matrix |-> cm, dist_coeffs |-> dc]

\* A calibration record left by an earlier run.
OldRecord == Calibration(Flatten(Matrix("Mold", 3, 3)), Flatten(Matrix("Dold", 1, 5)))
\* A record whose arrays do not have 9 and 5 numbers.
ShortRecord == Calibration(<<>>, <<>>)

VARIABLES
    action,         \* the subcommand: "Calibrate" or "Correct"
    pc,             \* position of main()
    abortAt,        \* the call whose failure ended the run ("" if none)
    dirExists,      \* whether the scanned directory can be read
    listing,        \* the entries read_dir yields for the scanned directory
    idx,            \* position of the for_each loop in the filtered listing
    pos,            \* progress bar position (pb.inc)
    objpoints,      \* main.rs:81
    imgpoints,      \* main.rs:82
    detections,     \* the Ok results of find_chessboard_corners: image and ret
    refined,        \* images given to corner_sub_pix
    reads,          \* images given to imread, in order
    log,            \* lines printed with pb.println / println!
    message,        \* the spinner message (pb.set_message)
    img,            \* the reference image of the solve step, <<>> before it
    solverCalls,    \* calls of calibrate_camera: arguments and result
    rectifierCalls, \* calls of get_optimal_new_camera_matrix
    mtx, dist,      \* main.rs:136-137, and mtx as shadowed at main.rs:153
    calFile,        \* content of the calibration file: <<>> absent, <<record>>
    calWritable,    \* whether the calibration-file path can be written
    calWrites,      \* number of fs::write calls on the calibration file
    outDir,         \* output directory of correct: "in" is the correction directory
    outWritable,    \* whether files can be created in the output directory
    loaded,         \* the calibration loaded by correct, <<>> before
    undistorted,    \* calls of undistort: source, matrices
    writes          \* files imwrite has written: path and content

vars == <<action, pc, abortAt, dirExists, listing, idx, pos, objpoints, imgpoints,
          detections, refined, reads, log, message, img, solverCalls, rectifierCalls,
          mtx, dist, calFile, calWritable, calWrites, outDir, outWritable, loaded,
          undistorted, writes>>

envVars == <<action, dirExists, listing, calWritable, outDir, outWritable>>
calibVars == <<objpoints, imgpoints, detections, refined, message, img, solverCalls,
               rectifierCalls, mtx, dist, calWrites, pos>>
correctVars == <<loaded, undistorted, writes>>

\* The jpg files of the scanned directory, in the order read_dir yields them.
images == JpgFilter(listing)

Init ==
    /\ action \in {"Calibrate", "Correct"}
    /\ pc = "start"
    /\ abortAt = ""
    /\ dirExists \in BOOLEAN
    /\ listing \in Listings
    /\ idx = 1
    /\ pos = 0
    /\ objpoints = <<>>
    /\ imgpoints = <<>>
    /\ detections = <<>>
    /\ refined = {}
    /\ reads = <<>>
    /\ log = <<>>
    /\ message = <<>>
    /\ img = <<>>
    /\ solverCalls = <<>>
    /\ rectifierCalls = <<>>
    /\ mtx = DefaultMat
    /\ dist = DefaultMat
    /\ calFile \in IF action = "Calibrate" THEN {<<>>, <<OldRecord>>}
                   ELSE {<<>>, <<OldRecord>>, <<ShortRecord>>}
    /\ calWritable \in IF action = "Calibrate" THEN BOOLEAN ELSE {TRUE}
    /\ calWrites = 0
    /\ outDir \in IF action = "Correct" THEN {"in", "out"} ELSE {"out"}
    /\ outWritable \in IF action = "Correct" THEN BOOLEAN ELSE {TRUE}
    /\ loaded = <<>>
    /\ undistorted = <<>>
    /\ writes = <<>>

\* `?` on an Err: main returns the error.
Fail(call) == pc' = "error" /\ abortAt' = call
\* .unwrap() on an Err or a None: the thread panics.
Panic(call) == pc' = "panic" /\ abortAt' = call

------------------------------------------------------------------------------
\* calibrate

\* main.rs:84-86: "[1/3] process images", fs::read_dir(&calibration_dir)?
CalibrateReadDir ==
    /\ action = "Calibrate" /\ pc = "start"
    /\ log' = Append(log, <<"[1/3] process images">>)
    /\ IF dirExists
         THEN pc' = "loop" /\ abortAt' = abortAt
         ELSE Fail("read_dir")
    /\ UNCHANGED <<envVars, calibVars, correctVars, idx, reads, calFile>>

\* FoundBranch with imgpoints.push(corners) left out.
FoundBranchNoImgpoints(image, subpixOk) ==
    /\ refined' = refined \cup {image}
    /\ IF subpixOk
         THEN /\ objpoints' = Append(objpoints, objp)
              /\ imgpoints' = imgpoints
              /\ message' = <<image, "processed">>
              /\ idx' = idx + 1
              /\ UNCHANGED <<pc, abortAt>>
         ELSE /\ Panic("corner_sub_pix")
              /\ UNCHANGED <<objpoints, imgpoints, message, idx>>
    /\ log' = log

\* main.rs:105-121: the branch taken when ret is true: corner_sub_pix(..).unwrap(),
\* objpoints.push(objp.clone()), imgpoints.push(corners), pb.set_message
FoundBranch(image, subpixOk) ==
    /\ refined' = refined \cup {image}
    /\ IF subpixOk
         THEN /\ objpoints' = Append(objpoints, objp)
              /\ imgpoints' = Append(imgpoints, RefinedCorners(DetectedCorners(image)))
              /\ message' = <<image, "processed">>
              /\ idx' = idx + 1
              /\ UNCHANGED <<pc, abortAt>>
         ELSE /\ Panic("corner_sub_pix")
              /\ UNCHANGED <<objpoints, imgpoints, message, idx>>
    /\ log' = log

\* NotFoundBranch with the pushes done for an undetected image too.
NotFoundBranchAppends(image) ==
    /\ log' = Append(log, <<"[!] chessboard not found for image", image>>)
    /\ idx' = idx + 1
    /\ objpoints' = Append(objpoints, objp)
    /\ imgpoints' = Append(imgpoints, <<>>)
    /\ UNCHANGED <<refined, message, pc, abortAt>>

\* main.rs:122-124: the branch taken when ret is false
NotFoundBranch(image) ==
    /\ log' = Append(log, <<"[!] chessboard not found for image", image>>)
    /\ idx' = idx + 1
    /\ UNCHANGED <<objpoints, imgpoints, refined, message, pc, abortAt>>

\* The ways one iteration of the image loop can go, by the first call that
\* fails or by the detector's answer.
ImageOutcomes == {"imread_err", "cvt_color_err", "detect_err", "not_found",
                  "corner_sub_pix_err", "found"}

\* main.rs:90-125: one iteration of the for_each closure
ProcessImage ==
    /\ action = "Calibrate" /\ pc = "loop" /\ idx <= Len(images)
    /\ \E outcome \in ImageOutcomes :
         LET image == images[idx] IN
         /\ pos' = pos + 1
         /\ reads' = Append(reads, image)
         /\ detections' =
              IF outcome \in {"found", "corner_sub_pix_err", "not_found"}
                THEN Append(detections, [image |-> image, ret |-> outcome # "not_found"])
                ELSE detections
         /\ CASE outcome = "imread_err" ->
                   /\ Panic("imread")
                   /\ UNCHANGED <<objpoints, imgpoints, refined, message, idx, log>>
              [] outcome = "cvt_color_err" ->
                   /\ Panic("cvt_color")
                   /\ UNCHANGED <<objpoints, imgpoints, refined, message, idx, log>>
              [] outcome = "detect_err" ->
                   /\ Panic("find_chessboard_corners")
                   /\ UNCHANGED <<objpoints, imgpoints, refined, message, idx, log>>
              [] outcome = "not_found" -> NotFoundBranch(image)
              [] outcome = "corner_sub_pix_err" -> FoundBranch(image, FALSE)
              [] outcome = "found" -> FoundBranch(image, TRUE)
    /\ UNCHANGED <<envVars, correctVars, img, solverCalls, rectifierCalls, mtx, dist,
                   calFile, calWrites>>

\* main.rs:127-135: "[2/3] compute calibration", the second scan of the
\* directory, .next().unwrap() and the imread of the first image
FirstImage ==
    /\ action = "Calibrate" /\ pc = "loop" /\ idx > Len(images)
    /\ log' = Append(log, <<"[2/3] compute calibration">>)
    /\ \E readOk \in BOOLEAN :
         IF images = <<>>
           THEN Panic("first_image") /\ UNCHANGED <<img, reads>>
           ELSE /\ reads' = Append(reads, images[1])
                /\ IF readOk
                     THEN img' = <<images[1]>> /\ pc' = "solve" /\ abortAt' = abortAt
                     ELSE Fail("imread_first_image") /\ img' = img
    /\ UNCHANGED <<envVars, correctVars, idx, pos, objpoints, imgpoints, detections,
                   refined, message, solverCalls, rectifierCalls, mtx, dist, calFile,
                   calWrites>>

\* main.rs:136-148 with the solver's error ignored instead of propagated
CalibrateCameraIgnoresError ==
    /\ action = "Calibrate" /\ pc = "solve"
    /\ \E ok \in BOOLEAN :
         /\ (objpoints = <<>> => ~ok)
         /\ solverCalls' = Append(solverCalls,
                [objpoints |-> objpoints, imgpoints |-> imgpoints,
                 size |-> ImageSize(img[1]), ok |-> ok])
         /\ mtx' = SolverMtx /\ dist' = SolverDist
         /\ pc' = "rectify" /\ abortAt' = abortAt
    /\ UNCHANGED <<envVars, correctVars, idx, pos, objpoints, imgpoints, detections,
                   refined, reads, log, message, img, rectifierCalls, calFile, calWrites>>

\* main.rs:136-148: calibrate_camera_def(&objpoints, &imgpoints, img.size()?, ...)?
\* OpenCV rejects an empty set of views with an error.
CalibrateCamera ==
    /\ action = "Calibrate" /\ pc = "solve"
    /\ \E ok \in BOOLEAN :
         /\ (objpoints = <<>> => ~ok)
         /\ solverCalls' = Append(solverCalls,
                [objpoints |-> objpoints, imgpoints |-> imgpoints,
                 size |-> ImageSize(img[1]), ok |-> ok])
         /\ IF ok
              THEN mtx' = SolverMtx /\ dist' = SolverDist /\ pc' = "rectify"
                   /\ abortAt' = abortAt
              ELSE Fail("calibrate_camera") /\ UNCHANGED <<mtx, dist>>
    /\ UNCHANGED <<envVars, correctVars, idx, pos, objpoints, imgpoints, detections,
                   refined, reads, log, message, img, rectifierCalls, calFile, calWrites>>

\* main.rs:150-161 with the result dropped: mtx stays the solver's matrix
GetOptimalNewCameraMatrixResultDropped ==
    /\ action = "Calibrate" /\ pc = "rectify"
    /\ \E ok \in BOOLEAN :
         /\ rectifierCalls' = Append(rectifierCalls,
                [mtx |-> mtx, dist |-> dist, size |-> ImageSize(img[1]),
                 alpha |-> Alpha, newSize |-> ImageSize(img[1]), ok |-> ok])
         /\ IF ok
              THEN mtx' = mtx /\ pc' = "store" /\ abortAt' = abortAt
              ELSE Fail("get_optimal_new_camera_matrix") /\ mtx' = mtx
    /\ UNCHANGED <<envVars, correctVars, idx, pos, objpoints, imgpoints, detections,
                   refined, reads, log, message, img, solverCalls, dist, calFile,
                   calWrites>>

\* main.rs:150-161: let mtx = get_optimal_new_camera_matrix(&mtx, &dist,
\*   Size::new(width, height), 1.0, Size::new(width, height), None, true)?
GetOptimalNewCameraMatrix ==
    /\ action = "Calibrate" /\ pc = "rectify"
    /\ \E ok \in BOOLEAN :
         /\ rectifierCalls' = Append(rectifierCalls,
                [mtx |-> mtx, dist |-> dist, size |-> ImageSize(img[1]),
                 alpha |-> Alpha, newSize |-> ImageSize(img[1]), ok |-> ok])
         /\ IF ok
              THEN mtx' = OptimalMtx /\ pc' = "store" /\ abortAt' = abortAt
              ELSE Fail("get_optimal_new_camera_matrix") /\ mtx' = mtx
    /\ UNCHANGED <<envVars, correctVars, idx, pos, objpoints, imgpoints, detections,
                   refined, reads, log, message, img, solverCalls, dist, calFile,
                   calWrites>>

\* main.rs:170-193: build the Calibration, "[3/3] strore to file",
\* fs::write(calibration_file, to_string(&calibration)).unwrap(), "done in"
StoreCalibration ==
    /\ action = "Calibrate" /\ pc = "store"
    /\ LET calibration == Calibration(Flatten(mtx), Flatten(dist)) IN
       /\ calWrites' = calWrites + 1
       /\ IF calWritable
            THEN /\ calFile' = <<calibration>>
                 /\ log' = log \o << <<"[3/3] strore to file">>, <<"done in">> >>
                 /\ pc' = "done" /\ abortAt' = abortAt
            ELSE /\ calFile' = calFile
                 /\ log' = Append(log, <<"[3/3] strore to file">>)
                 /\ Panic("fs_write")
    /\ UNCHANGED <<envVars, correctVars, idx, pos, objpoints, imgpoints, detections,
                   refined, reads, message, img, solverCalls, rectifierCalls, mtx, dist>>

------------------------------------------------------------------------------
\* correct

\* main.rs:200-203: read and parse the calibration file, build the two Mats
LoadCalibration ==
    /\ action = "Correct" /\ pc = "start"
    /\ IF calFile = <<>>
         THEN Panic("fs_read") /\ loaded' = loaded
         ELSE IF Len(calFile[1].camera_matrix) # 9 \/ Len(calFile[1].dist_coeffs) # 5
           THEN Panic("new_rows_cols_with_data") /\ loaded' = loaded
           ELSE loaded' = calFile /\ pc' = "scan" /\ abortAt' = abortAt
    /\ UNCHANGED <<envVars, calibVars, idx, reads, log, calFile, undistorted, writes>>

\* main.rs:204: fs::read_dir(correction_dir)?
CorrectReadDir ==
    /\ action = "Correct" /\ pc = "scan"
    /\ IF dirExists
         THEN pc' = "loop" /\ abortAt' = abortAt
         ELSE Fail("read_dir")
    /\ UNCHANGED <<envVars, calibVars, correctVars, idx, reads, log, calFile>>

\* The ways one iteration of the correct loop can go. imwrite reports a file
\* it could not write by returning Ok(false) or by an error.
CorrectOutcomes == {"imread_err", "undistort_err", "imwrite_err", "imwrite_false",
                    "written"}

\* main.rs:207-219: one iteration of the for_each closure
CorrectImage ==
    /\ action = "Correct" /\ pc = "loop" /\ idx <= Len(images)
    /\ \E outcome \in CorrectOutcomes :
         LET image == images[idx]
             call == [src |-> image, camera_matrix |-> loaded[1].camera_matrix,
                      dist_coeffs |-> loaded[1].dist_coeffs]
         IN
         /\ (outcome = "written") => outWritable
         /\ (outcome = "imwrite_false") => ~outWritable
         /\ reads' = Append(reads, image)
         /\ IF outcome = "imread_err"
              THEN Panic("imread") /\ UNCHANGED <<log, undistorted, writes, idx>>
              ELSE /\ log' = Append(log, <<"save new image", NewImageName(image)>>)
                   /\ undistorted' = Append(undistorted, call)
                   /\ CASE outcome = "undistort_err" ->
                             Panic("undistort") /\ UNCHANGED <<writes, idx>>
                        [] outcome = "imwrite_err" ->
                             Panic("imwrite") /\ UNCHANGED <<writes, idx>>
                        [] outcome = "imwrite_false" ->
                             /\ idx' = idx + 1
                             /\ UNCHANGED <<writes, pc, abortAt>>
                        [] outcome = "written" ->
                             /\ writes' = Append(writes,
                                    [path |-> OutputPath(outDir, image), content |-> call])
                             /\ idx' = idx + 1
                             /\ UNCHANGED <<pc, abortAt>>
    /\ UNCHANGED <<envVars, calibVars, loaded, calFile>>

\* main.rs:240-243: the listing is exhausted, main returns Ok(())
CorrectDone ==
    /\ action = "Correct" /\ pc = "loop" /\ idx > Len(images)
    /\ pc' = "done"
    /\ UNCHANGED <<envVars, calibVars, correctVars, abortAt, idx, reads, log, calFile>>

------------------------------------------------------------------------------
Next ==
    \/ CalibrateReadDir
    \/ ProcessImage
    \/ FirstImage
    \/ CalibrateCamera
    \/ GetOptimalNewCameraMatrix
    \/ StoreCalibration
    \/ LoadCalibration
    \/ CorrectReadDir
    \/ CorrectImage
    \/ CorrectDone

Spec == Init /\ [][Next]_vars

------------------------------------------------------------------------------
\* Properties

Last(s) == s[Len(s)]
Calibrating == action = "Calibrate"
Correcting == action = "Correct"
\* The image loop of calibrate has run to its end.
LoopEnded ==
    /\ Calibrating
    /\ \/ pc \in {"solve", "rectify", "store", "done"}
       \/ abortAt \in {"first_image", "imread_first_image", "calibrate_camera",
                       "get_optimal_new_camera_matrix", "fs_write"}

C2_RasterOrder ==
    (Calibrating /\ pc # "start") =>
        /\ Len(objp) = width_dim * height_dim
        /\ \A i \in 0..(Len(objp) - 1) :
             /\ objp[i + 1] = <<i % width_dim, i \div width_dim, 0>>
             /\ objp[i + 1][1] < width_dim
             /\ objp[i + 1][2] < height_dim
        /\ \A col \in 0..(width_dim - 1), row \in 0..(height_dim - 1) :
             Cardinality({k \in DOMAIN objp : objp[k] = <<col, row, 0>>}) = 1

\* Number of images for which detection returned true.
DetectedCount == Cardinality({k \in DOMAIN detections : detections[k].ret})

C3_Paired ==
    (Calibrating /\ abortAt # "corner_sub_pix") =>
        /\ Len(objpoints) = Len(imgpoints)
        /\ Len(objpoints) = DetectedCount
        /\ \A k \in DOMAIN objpoints :
             /\ objpoints[k] = objp
             /\ Len(objpoints[k]) = width_dim * height_dim
             /\ Len(imgpoints[k]) = Len(objpoints[k])

C3_AppendOnly ==
    \A k \in DOMAIN objpoints :
        /\ k \in DOMAIN objpoints' /\ k \in DOMAIN imgpoints'
        /\ objpoints'[k] = objpoints[k]
        /\ imgpoints'[k] = imgpoints[k]

\* C3: while the image loop runs and after it, objpoints and imgpoints have
\* the same number of entries, the number of images detected so far; every
\* objpoints entry is objp (width_dim*height_dim points) and its imgpoints
\* entry has that length; no step changes or removes an entry. (The run that
\* panics in corner_sub_pix ends inside the iteration, before the append.)
C3_Correspondence == []C3_Paired /\ [][C3_AppendOnly]_vars

\* Found, not found, found: two entries accumulated from three images.
C3_Witness ==
    /\ Calibrating /\ pc = "loop" /\ Len(detections) = 3
    /\ detections[1].ret /\ ~detections[2].ret /\ detections[3].ret
    /\ Len(objpoints) = 2 /\ Len(imgpoints) = 2

\* The step in which find_chessboard_corners returns Ok(false).
NotFoundStep ==
    /\ Len(detections') = Len(detections) + 1
    /\ ~Last(detections').ret

C4_Step ==
    NotFoundStep =>
        /\ objpoints' = objpoints /\ imgpoints' = imgpoints
        /\ refined' = refined
        /\ log' = Append(log, <<"[!] chessboard not found for image", images[idx]>>)
        /\ Last(detections').image = images[idx]
        /\ pc' = "loop" /\ abortAt' = "" /\ idx' = idx + 1

C4_Skipped ==
    Calibrating =>
        /\ \A k \in DOMAIN detections :
             ~detections[k].ret => detections[k].image \notin refined
        /\ pc \in {"solve", "rectify", "store", "done"} =>
             /\ Len(detections) = Len(images)
             /\ \A k \in DOMAIN images : detections[k].image = images[k]

\* C4: an image for which detection returns not-found appends nothing to
\* objpoints or imgpoints, gets the not-found message, is never given to
\* corner_sub_pix, and leaves the loop running at the next image; a loop that
\* reaches the solve step has run the detector on every image of the listing.
C4_NotFoundSkips == []C4_Skipped /\ [][C4_Step]_vars

\* A not-found image followed by a processed one, and the run completed.
C4_Witness ==
    /\ Calibrating /\ pc = "done" /\ Len(detections) = 2
    /\ ~detections[1].ret /\ detections[2].ret
    /\ Len(objpoints) = 1
    /\ Len(log) = 5

\* C5: a per-image decode failure (imread, cvt_color or the detection call
\* returning an error) never ends the run: the image is skipped and the
\* batch continues.
C5_DecodeFailureRecoverable ==
    Calibrating =>
        ~(pc \in {"panic", "error"}
            /\ abortAt \in {"imread", "cvt_color", "find_chessboard_corners"})

\* C6: when the loop ends with an empty Correspondence Set the run fails with
\* an explicit insufficient-data condition: the solver is never called with
\* zero correspondences and the run does not fail elsewhere first.
C6_EmptyGuard ==
    Calibrating =>
        /\ \A k \in DOMAIN solverCalls : solverCalls[k].objpoints # <<>>
        /\ (LoopEnded /\ objpoints = <<>> /\ pc \in {"panic", "error"}) =>
              abortAt = "insufficient_calibration_data"

\* The calls whose failure aborts calibrate before the store step.
AbortsBeforeStore == {"read_dir", "imread", "cvt_color", "find_chessboard_corners",
                      "corner_sub_pix", "first_image", "imread_first_image",
                      "calibrate_camera", "get_optimal_new_camera_matrix"}

C7_Once ==
    Calibrating =>
        /\ calWrites <= 1
        /\ calWrites >= 1 =>
             /\ idx = Len(images) + 1
             /\ Len(reads) = Len(images) + 1
             /\ \A k \in DOMAIN images : reads[k] = images[k]
             /\ Len(solverCalls) = 1 /\ solverCalls[1].ok
             /\ Len(rectifierCalls) = 1 /\ rectifierCalls[1].ok
        /\ (pc \in {"panic", "error"} /\ abortAt \in AbortsBeforeStore) =>
             /\ calWrites = 0
             /\ calFile \in {<<>>, <<OldRecord>>}
        /\ calWrites = 0 => calFile \in {<<>>, <<OldRecord>>}

C7_OnlyStoreWrites ==
    (calFile' # calFile) => (Calibrating /\ pc = "store" /\ calWrites' = calWrites + 1)

\* C7: calibrate writes the calibration file at most once, and only after
\* every image of the listing was processed and both calibrate_camera and
\* get_optimal_new_camera_matrix returned Ok; a run aborted in the image
\* loop, the reference-image read, the solver or the rectifier never writes
\* or modifies the file.
C7_NoPartialCalibration == []C7_Once /\ [][C7_OnlyStoreWrites]_vars

\* A run over two images that wrote the file over an older record.
C7_Witness ==
    /\ Calibrating /\ pc = "done" /\ calWrites = 1 /\ Len(images) = 2
    /\ calFile # <<OldRecord>> /\ calFile # <<>>

\* C8: a missing input directory or an unwritable output path ends the run
\* before any image is read, and the run never finishes successfully.
C8_IoFatalBeforeProcessing ==
    /\ (Calibrating /\ (~dirExists \/ ~calWritable)) =>
          (reads = <<>> /\ detections = <<>> /\ pc # "done")
    /\ (Correcting /\ (~dirExists \/ ~outWritable)) =>
          (reads = <<>> /\ undistorted = <<>> /\ pc # "done")

\* C9: the file written by calibrate holds, row-major, the matrix returned
\* by get_optimal_new_camera_matrix, called with the solver's M and D, alpha
\* 1.0 and the reference image size as both sizes, and never the solver's M;
\* dist_coeffs are the solver's D; the solver got the same reference size.
C9_PersistsOptimalMatrix ==
    (Calibrating /\ pc = "done") =>
        LET s == Last(solverCalls)
            r == Last(rectifierCalls)
            rec == calFile[1]
        IN
        /\ Len(rec.camera_matrix) = 9
        /\ \A i \in 0..2, j \in 0..2 :
             /\ rec.camera_matrix[3 * i + j + 1] = <<"Mopt", i + 1, j + 1>>
             /\ rec.camera_matrix[3 * i + j + 1] # SolverMtx[i + 1][j + 1]
        /\ rec.dist_coeffs = << <<"D", 1, 1>>, <<"D", 1, 2>>, <<"D", 1, 3>>,
                                <<"D", 1, 4>>, <<"D", 1, 5>> >>
        /\ r.mtx = SolverMtx /\ r.dist = SolverDist
        /\ r.alpha = 1
        /\ r.size = ImageSize(images[1]) /\ r.newSize = r.size
        /\ s.size = r.size

\* A completed run whose reference image is the larger one.
C9_Witness ==
    /\ Calibrating /\ pc = "done"
    /\ Len(images) = 2 /\ ImageSize(images[1]) = <<800, 600>>
    /\ calFile[1].camera_matrix[1] = <<"Mopt", 1, 1>>

\* Files of the correction directory.
SourcePaths == { <<"in", listing[k]>> : k \in DOMAIN listing }

\* C10: a correct run that returns has written, for every jpg file of the
\* correction directory, exactly one file, at output_dir/u_<name>, holding
\* the image undistorted from that source with the loaded matrices; it has
\* written no file of the correction directory.
C10_OneOutputPerImage ==
    (Correcting /\ pc = "done") =>
        /\ \A k \in DOMAIN images :
             Cardinality({w \in DOMAIN writes :
                 /\ writes[w].path = <<outDir, Entry(<<"u_">> \o images[k].stem, "jpg")>>
                 /\ writes[w].content.src = images[k]
                 /\ writes[w].content.camera_matrix = calFile[1].camera_matrix
                 /\ writes[w].content.dist_coeffs = calFile[1].dist_coeffs}) = 1
        /\ Len(writes) = Len(images)
        /\ \A w \in DOMAIN writes : writes[w].path \notin SourcePaths

====
